---------------------------- MODULE Spec2Model ----------------------------
(***************************************************************************)
(* A model of post-extracter: the batch-with-retry coordinator of          *)
(* clean_html_posts-stable.py (process_csv_in_batches, process_skipped_    *)
(* rows, main), its three image fetch routines, the HTML body rewrite      *)
(* (transform_html_body, both generations) and slugify (both generations). *)
(*                                                                         *)
(* Four specifications share the module's variables:                       *)
(*   Spec      the run of main() over an input of total_rows rows          *)
(*   SpecFetch the fetch routines acting on the DownloadedImages tree      *)
(*   SpecHtml  transform_html_body applied to a bounded fragment           *)
(*   SpecSlug  slugify applied to a bounded string                         *)
(***************************************************************************)
EXTENDS Integers, Sequences, FiniteSets, TLC

\* ------------------------------------------------------------------ bounds
MaxRows == 4

MaxBatch == 4

\* longest string handed to slugify
MaxSlugLen == 3

\* most elements of a fragment handed to transform_html_body
MaxNodes == 3

\* most calls of fetch routines in one behaviour
MaxFetchCalls == 2

\* largest row index handed to a fetch routine
MaxFetchIdx == 1

\* most image references in one field of a row
MaxImgs == 2

VARIABLES
    \* ---- the run of main() --------------------------------------------
    total_rows,             \* len(full_df)
    batch_size,             \* the batch_size argument (BATCH_SIZE in main)
    draft,                  \* indices whose status is "draft" (any case, padded)
    pc,                     \* position of main()
    start_idx,              \* loop variable of the primary pass
    processed_indices,      \* the set of process_csv_in_batches
    first_batch,            \* header flag of process_csv_in_batches
    output_exists,          \* os.path.exists(output_csv_path)
    output,                 \* original indices of the rows of the output file, in file order
    skipped,                \* the value process_csv_in_batches returns
    retry_queue,            \* what is left of `for idx in sorted(skipped_indices)`
    successfully_processed, \* the list of process_skipped_rows
    report_written,         \* main() wrote skipped_rows.txt
    report,                 \* the indices written to skipped_rows.txt
    \* ---- what the environment did during the run (observations) ---------
    failedPrimary,          \* rows on which process_batch raised in the primary pass
    failedRetry,            \* rows on which process_batch raised in the retry pass
    okRows,                 \* rows some process_batch call handled without raising
    writeFailed,            \* indices whose to_csv call raised
    \* ---- slugify applied to one string ----------------------------------
    slug_in,                \* the argument: a sequence of characters
    slug_out,               \* the value returned
    slug_state,             \* "input", or the generation of slugify that ran
    \* ---- transform_html_body applied to one fragment --------------------
    html_in,                \* the fragment: a sequence of elements
    html_out,               \* the tree that is serialized and returned
    html_state,             \* "input", or the generation of the transform that ran
    \* ---- the fetch routines and the DownloadedImages tree ---------------
    files,                  \* save_path -> content, for every file that exists
    dirs,                   \* the folders os.makedirs created
    requested,              \* the save_paths the last routine call issued requests.get for
    updated_filename,       \* what the last single-image call put in the column
    last_routine,           \* the routine that ran last
    fetch_calls             \* routine calls made so far

coordVars == <<total_rows, batch_size, draft, pc, start_idx, processed_indices,
               first_batch, output_exists, output, skipped, retry_queue,
               successfully_processed, report_written, report,
               failedPrimary, failedRetry, okRows, writeFailed>>

slugVars == <<slug_in, slug_out, slug_state>>

htmlVars == <<html_in, html_out, html_state>>

fetchVars == <<files, dirs, requested, updated_filename, last_routine, fetch_calls>>

\* the variables the run of main() does not touch
otherVars == <<slugVars, htmlVars, fetchVars>>

vars == <<coordVars, slugVars, htmlVars, fetchVars>>

\* ------------------------------------------------------------- helpers
Min(a, b) == IF a < b THEN a ELSE b

SetMin(S) == CHOOSE x \in S : \A y \in S : x <= y

RECURSIVE SortedSeq(_)
\* sorted(S) of a finite set of integers
SortedSeq(S) == IF S = {} THEN << >>
                ELSE <<SetMin(S)>> \o SortedSeq(S \ {SetMin(S)})

Range(s) == { s[i] : i \in 1..Len(s) }

\* set(range(total_rows))
AllIndices == 0 .. (total_rows - 1)


\* ----------------------------------------------------------------- slugify
\* Characters are one-character strings; the two non-ASCII characters of the
\* alphabet are named: E_ACUTE is U+00E9, whose compatibility decomposition is
\* "e" followed by the combining accent U+0301 (here U0301), and CJK is a
\* character without decomposition.
LowerLetters == {"a", "b", "d", "e", "i", "l", "n", "o", "r", "t", "u", "w"}

UpperLetters == {"A", "B"}

Digits == {"0", "1", "2", "3", "4", "5", "6", "7", "8", "9"}

Whitespace == {" "}

Punctuation == {"!", ".", ")", ":"}

NonAscii == {"E_ACUTE", "U0301", "CJK"}

\* \w of the regular expressions, on what is left after the ASCII round trip
WordChars == LowerLetters \cup UpperLetters \cup Digits \cup {"_"}

\* the alphabet slugify is checked over
SlugAlphabet == {"a", "B", "1", " ", "_", "-", "!", "E_ACUTE", "CJK"}

RECURSIVE Flatten(_)
\* the concatenation of the sequences ss[1], ss[2], ...: "".join(...)
Flatten(ss) == IF ss = << >> THEN << >> ELSE Head(ss) \o Flatten(Tail(ss))

\* unicodedata.normalize("NFKD", .) of one character
NfkdChar(c) == IF c = "E_ACUTE" THEN <<"e", "U0301">> ELSE <<c>>

\* text = unicodedata.normalize("NFKD", text)
Nfkd(s) == Flatten([i \in 1..Len(s) |-> NfkdChar(s[i])])

AsciiChar(c) == IF c \in NonAscii THEN << >> ELSE <<c>>

\* text.encode("ascii", "ignore").decode("ascii")
AsciiIgnore(s) == Flatten([i \in 1..Len(s) |-> AsciiChar(s[i])])

WordSpaceHyphenChar(c) ==
    IF c \in WordChars \cup Whitespace \cup {"-"} THEN <<c>> ELSE << >>

\* re.sub(r"[^\w\s-]", "", text)
RemoveNonWord(s) == Flatten([i \in 1..Len(s) |-> WordSpaceHyphenChar(s[i])])

RECURSIVE LStrip(_)
LStrip(s) == IF s # << >> /\ Head(s) \in Whitespace THEN LStrip(Tail(s)) ELSE s

RECURSIVE RStrip(_)
RStrip(s) == IF s # << >> /\ s[Len(s)] \in Whitespace
             THEN RStrip(SubSeq(s, 1, Len(s) - 1)) ELSE s

\* str.strip()
Strip(s) == RStrip(LStrip(s))

LowerChar(c) == IF c = "A" THEN <<"a">> ELSE IF c = "B" THEN <<"b">> ELSE <<c>>

\* str.lower()
Lower(s) == Flatten([i \in 1..Len(s) |-> LowerChar(s[i])])

\* the characters of the class [\s_-]
Separators == Whitespace \cup {"_", "-"}

RECURSIVE CollapseSeparators(_)
\* re.sub(r"[\s_-]+", "-", text): every maximal run of separators becomes one hyphen
CollapseSeparators(s) ==
    IF s = << >> THEN << >>
    ELSE IF Head(s) \in Separators
         THEN IF Len(s) > 1 /\ s[2] \in Separators
              THEN CollapseSeparators(Tail(s))
              ELSE <<"-">> \o CollapseSeparators(Tail(s))
         ELSE <<Head(s)>> \o CollapseSeparators(Tail(s))

RECURSIVE DropWhile(_, _)
DropWhile(S, s) == IF s # << >> /\ Head(s) \in S THEN DropWhile(S, Tail(s)) ELSE s

\* re.sub(r"^\d+-*", "", slug): a leading run of digits and the hyphens after it
StripLeadingDigits(s) ==
    IF s # << >> /\ Head(s) \in Digits
    THEN DropWhile({"-"}, DropWhile(Digits, s))
    ELSE s

\* slugify of clean_html_posts-stable.py
slugify(text) == CollapseSeparators(Lower(Strip(RemoveNonWord(AsciiIgnore(Nfkd(text))))))

\* slugify of process-csv-only.py
slugify_csv_only(text) == StripLeadingDigits(slugify(text))

RECURSIVE SeqsUpTo(_, _)
\* the sequences over S of length at most n
SeqsUpTo(S, n) ==
    IF n = 0 THEN {<< >>}
    ELSE LET shorter == SeqsUpTo(S, n - 1)
         IN  shorter \cup { Append(t, c) : t \in shorter, c \in S }

\* FetchIdle, HtmlIdle, SlugIdle, CoordIdle: the variables of a component that
\* does not run in the specification at hand keep these values throughout.
FetchIdle ==
    /\ files = [p \in {} |-> 0] /\ dirs = {} /\ requested = {}
    /\ updated_filename = << >> /\ last_routine = "none" /\ fetch_calls = 0

HtmlIdle == html_in = << >> /\ html_out = << >> /\ html_state = "idle"

SlugIdle == slug_in = << >> /\ slug_out = << >> /\ slug_state = "idle"

CoordIdle ==
    /\ total_rows = 0 /\ batch_size = 1 /\ draft = {} /\ pc = "idle"
    /\ start_idx = 0 /\ processed_indices = {} /\ first_batch = TRUE
    /\ output_exists = FALSE /\ output = << >> /\ skipped = {}
    /\ retry_queue = << >> /\ successfully_processed = {}
    /\ report_written = FALSE /\ report = {}
    /\ failedPrimary = {} /\ failedRetry = {} /\ okRows = {} /\ writeFailed = {}

InitSlug ==
    /\ slug_in \in SeqsUpTo(SlugAlphabet, MaxSlugLen)
    /\ slug_out = << >>
    /\ slug_state = "input"
    /\ CoordIdle
    /\ HtmlIdle
    /\ FetchIdle

\* a call of slugify of clean_html_posts-stable.py
Slugify ==
    /\ slug_state = "input"
    /\ slug_out' = slugify(slug_in)
    /\ slug_state' = "stable"
    /\ UNCHANGED <<slug_in, coordVars, htmlVars, fetchVars>>

\* a call of slugify of process-csv-only.py
SlugifyCsvOnly ==
    /\ slug_state = "input"
    /\ slug_out' = slugify_csv_only(slug_in)
    /\ slug_state' = "csv_only"
    /\ UNCHANGED <<slug_in, coordVars, htmlVars, fetchVars>>

NextSlug == Slugify \/ SlugifyCsvOnly

SpecSlug == InitSlug /\ [][NextSlug]_vars

\* the characters of [a-z0-9-]
SlugChars == LowerLetters \cup Digits \cup {"-"}

\* C10: slugify returns, for every input string, a string of characters of
\* [a-z0-9-] that neither starts nor ends with a hyphen, and the empty string
\* for the empty input.
C10_SlugWellFormed ==
    slug_state \in {"stable", "csv_only"} =>
        /\ \A i \in 1..Len(slug_out) : slug_out[i] \in SlugChars
        /\ slug_out # << >> => (slug_out[1] # "-" /\ slug_out[Len(slug_out)] # "-")
        /\ slug_in = << >> => slug_out = << >>


\* ------------------------------------------------------ transform_html_body
\* A fragment is a sequence of top-level elements, each holding text only.
\* An element is a record: tag, id and href and src (attribute values, << >>
\* when absent), style, text (the flattened text content) and, for the block
\* of the table of contents, the items of its ordered list.
Element(tag, id, href, src, style, text, items) ==
    [tag |-> tag, id |-> id, href |-> href, src |-> src, style |-> style,
     text |-> text, items |-> items]

\* A URL is <<scheme, host, directory, file>>; urlparse(url).path is the
\* directory followed by the file, os.path.basename of it is the file.
UrlPath(url) == IF url[3] = "" /\ url[4] = "" THEN << >> ELSE <<"", "", url[3], url[4]>>

UrlBasename(url) == IF url[4] = "" THEN << >> ELSE <<"", "", "", url[4]>>

\* the heading texts of the fragments checked
HeadingTexts == { <<"1", ".", " ", "a">>, <<"a">>, <<"B", " ", "a">>, <<"!">>, <<"1">> }

\* the elements of the fragments checked
InputElements ==
    { Element("h2", << >>, << >>, << >>, "", t, << >>) : t \in HeadingTexts }
    \cup { Element("h3", << >>, << >>, << >>, "", <<"a">>, << >>),
           Element("p", << >>, << >>, << >>, "", <<" ", "a">>, << >>),
           Element("a", << >>, <<"http", "h", "/d/", "x">>, << >>, "", <<"a">>, << >>),
           Element("img", << >>, << >>, <<"http", "h", "/d/", "x.jpg">>, "", << >>, << >>) }

\* re.sub(r"^\s*\d+\s*[\.\-\)\:]*\s*", "", text)
remove_leading_numbering(text) ==
    LET s1 == DropWhile(Whitespace, text) IN
    IF s1 = << >> \/ Head(s1) \notin Digits
    THEN text
    ELSE DropWhile(Whitespace,
            DropWhile({".", "-", ")", ":"},
               DropWhile(Whitespace, DropWhile(Digits, s1))))

\* for p in soup.find_all("p"): the flattened text in a 14px span
RewriteP(e) == [e EXCEPT !.text = Strip(e.text), !.style = "font-size:14px;"]

\* slugify of the generation gen of the script ("stable" or "csv_only")
SlugOf(gen, text) == IF gen = "csv_only" THEN slugify_csv_only(text) ELSE slugify(text)

\* the anchor id of a level-2 heading: slugify(remove_leading_numbering(text))
AnchorId(gen, e) == SlugOf(gen, remove_leading_numbering(Strip(e.text)))

\* for h2 in soup.find_all("h2"): id and style set, the original text in bold
RewriteH2(gen, e) ==
    [e EXCEPT !.id = AnchorId(gen, e),
              !.style = "font-size: 24px; color:#000000;",
              !.text = Strip(e.text)]

\* for h3 in soup.find_all("h3"): the flattened text in an 18px span
RewriteH3(e) == [e EXCEPT !.text = Strip(e.text), !.style = "font-size:18px;"]

\* for img_tag in soup.find_all("img"): src becomes the file name
RewriteImg(e) ==
    IF e.src # << >> /\ UrlBasename(e.src) # << >>
    THEN [e EXCEPT !.src = UrlBasename(e.src)] ELSE e

\* process-csv-only.py: href becomes the path of the URL; the element stays
RewriteHref(e) ==
    IF e.href # << >> /\ UrlPath(e.href) # << >>
    THEN [e EXCEPT !.href = UrlPath(e.href)] ELSE e

\* a_tag.insert_before(" "); a_tag.insert_after(" "); a_tag.unwrap():
\* the anchor is replaced by its text between two spaces
Unwrap(e) == Element("text", << >>, << >>, << >>, "", <<" ">> \o e.text \o <<" ">>, << >>)

\* the steps before the table of contents, on one element
RewriteElement(gen, e) ==
    CASE e.tag = "p"   -> RewriteP(e)
      [] e.tag = "h2"  -> RewriteH2(gen, e)
      [] e.tag = "h3"  -> RewriteH3(e)
      [] e.tag = "img" -> RewriteImg(e)
      [] OTHER         -> e

IsH2(e) == e.tag = "h2"

\* toc_items: (slug, clean_text) of every h2, in document order
TocItems(gen, fragment) ==
    [ i \in 1..Len(SelectSeq(fragment, IsH2)) |->
        LET h == SelectSeq(fragment, IsH2)[i] IN
        Element("a", << >>, <<"#">> \o AnchorId(gen, h), << >>, "",
                remove_leading_numbering(Strip(h.text)), << >>) ]

\* the parsed toc_html: <div ...><strong>Table of Contents</strong><ol ...>
\* with one <li><a href="#{slug}">{text}</a></li> per item
TocBlock(items) ==
    Element("div", << >>, << >>, << >>,
            "background-color: #f9f9f9; padding: 16px; border-radius: 8px; margin-bottom: 20px;",
            <<"Table of Contents">>, items)

\* if toc_items: soup.insert(0, toc_soup)
InsertToc(items, tree) == IF items # << >> THEN <<TocBlock(items)>> \o tree ELSE tree

\* for a_tag in soup.find_all("a"): ... unwrap(), on every anchor of the tree,
\* those of the inserted block included
UnwrapAll(tree) ==
    [ i \in 1..Len(tree) |->
        IF tree[i].tag = "a" THEN Unwrap(tree[i])
        ELSE [tree[i] EXCEPT !.items =
                 [ k \in 1..Len(tree[i].items) |->
                     IF tree[i].items[k].tag = "a"
                     THEN Unwrap(tree[i].items[k]) ELSE tree[i].items[k] ]] ]

\* transform_html_body of clean_html_posts-stable.py: the table of contents
\* is inserted first, the anchors are unwrapped last
transform_html_body(fragment) ==
    UnwrapAll(
        InsertToc(TocItems("stable", fragment),
                  [ i \in 1..Len(fragment) |-> RewriteElement("stable", fragment[i]) ]))

\* transform_html_body of process-csv-only.py: hrefs are rewritten, then the
\* table of contents is inserted; no anchor is unwrapped
transform_html_body_csv_only(fragment) ==
    InsertToc(TocItems("csv_only", fragment),
              [ i \in 1..Len(fragment) |->
                  IF fragment[i].tag = "a" THEN RewriteHref(fragment[i])
                  ELSE RewriteElement("csv_only", fragment[i]) ])

InitHtml ==
    /\ html_in \in SeqsUpTo(InputElements, MaxNodes)
    /\ html_out = << >>
    /\ html_state = "input"
    /\ CoordIdle
    /\ SlugIdle
    /\ FetchIdle

\* a call of transform_html_body of clean_html_posts-stable.py
TransformHtmlBody ==
    /\ html_state = "input"
    /\ html_out' = transform_html_body(html_in)
    /\ html_state' = "stable"
    /\ UNCHANGED <<html_in, coordVars, slugVars, fetchVars>>

\* a call of transform_html_body of process-csv-only.py
TransformHtmlBodyCsvOnly ==
    /\ html_state = "input"
    /\ html_out' = transform_html_body_csv_only(html_in)
    /\ html_state' = "csv_only"
    /\ UNCHANGED <<html_in, coordVars, slugVars, fetchVars>>

NextHtml == TransformHtmlBody \/ TransformHtmlBodyCsvOnly

SpecHtml == InitHtml /\ [][NextHtml]_vars

\* the positions of the table-of-contents blocks of a tree
TocBlocks(tree) ==
    { i \in 1..Len(tree) : tree[i].tag = "div" /\ tree[i].text = <<"Table of Contents">> }

\* C9: for a fragment with n >= 1 level-2 headings the output holds exactly one
\* table-of-contents block, as first child, whose list has n items in the
\* document order of the headings, each an anchor link whose href is "#"
\* followed by the id set on the corresponding heading; for n = 0 there is no
\* block.
C9_TocBlock ==
    html_state \in {"stable", "csv_only"} =>
        LET n     == Len(SelectSeq(html_in, IsH2))
            heads == SelectSeq(html_out, IsH2)
        IN  IF n = 0
            THEN TocBlocks(html_out) = {}
            ELSE /\ TocBlocks(html_out) = {1}
                 /\ Len(html_out[1].items) = n
                 /\ Len(heads) = n
                 /\ \A i \in 1..n :
                       /\ html_out[1].items[i].tag = "a"
                       /\ html_out[1].items[i].href = <<"#">> \o heads[i].id


\* ------------------------------------------------------- the fetch routines
\* A title is the value of the "name" column: absent (NaN) or a string.
Titles == { [isna |-> TRUE,  text |-> << >>],
            [isna |-> FALSE, text |-> <<" ">>],
            [isna |-> FALSE, text |-> <<"a">>],
            [isna |-> FALSE, text |-> <<"!">>] }

\* the image URLs of the rows checked: one with a file name, one whose path
\* ends in "/"
FetchUrls == { <<"http", "h", "/d/", "x.jpg">>, <<"http", "h", "/", "">> }

\* the src values of the <img> elements of the bodies checked: the URLs and an
\* embedded data: reference
ImgSrcs == FetchUrls \cup { <<"data", "", "", "">> }

\* an empty cell of an image column
NoUrl == <<"", "", "", "">>

\* what requests.get returns: 0 for an exception (timeout, HTTP error), else
\* the content served at that moment
Responses == {0, 1, 2}

\* pd.isna(title) or not str(title).strip()
TitleBlank(title) == title.isna \/ Strip(title.text) = << >>

\* f"untitled-row-{idx}"
UntitledRow(idx) ==
    <<"u", "n", "t", "i", "t", "l", "e", "d", "-", "r", "o", "w", "-", ToString(idx)>>

\* slug = slugify(title), after the fallback for a blank title
ArticleSlug(idx, title) ==
    slugify(IF TitleBlank(title) THEN UntitledRow(idx) ELSE title.text)

\* os.path.join(target_folder, filename) under base_folder; sub is "HEROIMAGE"
\* in hero mode and "" otherwise
SavePath(folder, sub, filename) == [folder |-> folder, sub |-> sub, file |-> filename]

\* os.path.basename(parsed_url.path) or <fallback>
FileNameOr(url, fallback) == IF url[4] # "" THEN <<url[4]>> ELSE fallback

\* requests can fetch the URL at all (an http(s) URL)
Fetchable(url) == url[1] \in {"http", "https"}

\* open(save_path, "wb").write(response.content), when the request succeeded
Store(fs, path, resp) == IF resp = 0 THEN fs ELSE (path :> resp) @@ fs

RECURSIVE BodyImages(_, _, _, _, _, _)
\* the loop over soup.find_all("img") of download_images_from_html_column,
\* from image i on; st is [files, requested]
BodyImages(st, folder, idx, imgs, resps, i) ==
    IF i > Len(imgs) THEN st
    ELSE LET url  == imgs[i]
             path == SavePath(folder, "",
                        FileNameOr(url, <<"embedded_", ToString(idx), "_", ToString(i - 1), ".jpg">>))
         IN  IF ~Fetchable(url) \/ path \in DOMAIN st.files
             THEN BodyImages(st, folder, idx, imgs, resps, i + 1)
             ELSE BodyImages([files |-> Store(st.files, path, resps[i]),
                              requested |-> st.requested \cup {path}],
                             folder, idx, imgs, resps, i + 1)

RECURSIVE AllImages(_, _, _, _, _, _)
\* the loop over the "|"-separated URLs of download_all_images, from URL i on
AllImages(st, folder, idx, urls, resps, i) ==
    IF i > Len(urls) THEN st
    ELSE LET url  == urls[i]
             path == SavePath(folder, "",
                        FileNameOr(url, <<"all_image_", ToString(idx), "_", ToString(i - 1), ".jpg">>))
             resp == IF Fetchable(url) THEN resps[i] ELSE 0
         IN  AllImages([files |-> Store(st.files, path, resp),
                        requested |-> IF Fetchable(url) THEN st.requested \cup {path}
                                      ELSE st.requested],
                       folder, idx, urls, resps, i + 1)

InitFetch ==
    /\ FetchIdle
    /\ CoordIdle
    /\ SlugIdle
    /\ HtmlIdle

\* download_images_from_html_column on one row whose body is not blank
DownloadImagesFromHtmlColumn ==
    /\ fetch_calls < MaxFetchCalls
    /\ \E idx \in 0..MaxFetchIdx, title \in Titles :
        LET folder == ArticleSlug(idx, title) IN
        \E imgs \in SeqsUpTo(ImgSrcs, MaxImgs) :
        \E resps \in [1..Len(imgs) -> Responses] :
        LET st == BodyImages([files |-> files, requested |-> {}], folder, idx, imgs, resps, 1)
        IN  /\ files' = st.files
            /\ requested' = st.requested
            /\ dirs' = dirs \cup {SavePath(folder, "", << >>)}
    /\ updated_filename' = << >>
    /\ last_routine' = "download_images_from_html_column"
    /\ fetch_calls' = fetch_calls + 1
    /\ UNCHANGED <<coordVars, slugVars, htmlVars>>

\* download_and_replace_with_filename on one row, for one of the three
\* single-image columns (hero_mode for the hero image)
DownloadAndReplaceWithFilename ==
    /\ fetch_calls < MaxFetchCalls
    /\ \E idx \in 0..MaxFetchIdx, title \in Titles :
        LET slug == ArticleSlug(idx, title) IN
        \E url \in FetchUrls \cup {NoUrl}, hero_mode \in BOOLEAN, resp \in Responses :
        IF url = NoUrl
        THEN \* updated_filenames.append(""); continue
             /\ updated_filename' = << >>
             /\ requested' = {}
             /\ UNCHANGED <<files, dirs>>
        ELSE LET sub      == IF hero_mode THEN "HEROIMAGE" ELSE ""
                 filename == FileNameOr(url, slug \o <<"_", ToString(idx), ".jpg">>)
                 path     == SavePath(slug, sub, filename)
                 got      == IF Fetchable(url) THEN resp ELSE 0
             IN  /\ dirs' = dirs \cup {SavePath(slug, sub, << >>)}
                 /\ requested' = IF Fetchable(url) THEN {path} ELSE {}
                 /\ files' = Store(files, path, got)
                 /\ updated_filename' = IF got = 0 THEN << >> ELSE filename
    /\ last_routine' = "download_and_replace_with_filename"
    /\ fetch_calls' = fetch_calls + 1
    /\ UNCHANGED <<coordVars, slugVars, htmlVars>>

\* download_all_images on one row whose "all images" cell is not blank
DownloadAllImages ==
    /\ fetch_calls < MaxFetchCalls
    /\ \E idx \in 0..MaxFetchIdx, title \in Titles :
        LET folder == ArticleSlug(idx, title) IN
        \E urls \in SeqsUpTo(FetchUrls, MaxImgs) \ {<< >>} :
        \E resps \in [1..Len(urls) -> Responses] :
        LET st == AllImages([files |-> files, requested |-> {}], folder, idx, urls, resps, 1)
        IN  /\ files' = st.files
            /\ requested' = st.requested
            /\ dirs' = dirs \cup {SavePath(folder, "", << >>)}
    /\ updated_filename' = << >>
    /\ last_routine' = "download_all_images"
    /\ fetch_calls' = fetch_calls + 1
    /\ UNCHANGED <<coordVars, slugVars, htmlVars>>

NextFetch ==
    DownloadImagesFromHtmlColumn \/ DownloadAndReplaceWithFilename \/ DownloadAllImages

SpecFetch == InitFetch /\ [][NextFetch]_vars

\* C8: in each of the three fetch routines, whenever the destination path of a
\* fetch already exists, no network request is made for it and the file at
\* that path is left unchanged.
C8_IdempotentFetch ==
    [][ \A p \in DOMAIN files : p \notin requested' /\ files'[p] = files[p] ]_vars

\* ------------------------------------------------- process_csv_in_batches
\* (mutant of EndIdx: the last row of the frame is cut off)
EndIdx_offByOne(start) == Min(start + batch_size, total_rows - 1)

\* end_idx = min(start_idx + batch_size, total_rows)
EndIdx(start) == Min(start + batch_size, total_rows)

\* batch_df['__batch_index'].tolist() of full_df.iloc[start_idx:end_idx]
BatchIndices(start) == start .. (EndIdx(start) - 1)

\* (mutant of Kept: the status filter is missing)
Kept_noFilter(rows) == rows

\* The rows process_batch keeps: the status filter drops draft rows before any
\* per-row transform runs, so only these rows can raise.
Kept(rows) == rows \ draft

\* (mutant of BatchRaises: a row's exception is swallowed inside process_batch)
BatchRaises_swallowed(F) == FALSE

\* process_batch(df) raises iff one of the rows it transforms raises
BatchRaises(F) == F # {}

\* The rows processed_df.to_csv(mode='a') appends: the kept rows, in frame order
Appended(rows) == SortedSeq(Kept(rows))

\* (mutant of SkippedIndices: the processed indices are not subtracted)
SkippedIndices_all == AllIndices

\* skipped_indices = all_indices - processed_indices
SkippedIndices == AllIndices \ processed_indices

Init ==
    /\ total_rows \in 0..MaxRows
    /\ batch_size \in 1..MaxBatch
    /\ draft \in SUBSET (0 .. (total_rows - 1))
    /\ pc = "primary"
    /\ start_idx = 0
    /\ processed_indices = {}
    /\ first_batch = TRUE
    /\ output_exists = FALSE
    /\ output = << >>
    /\ skipped = {}
    /\ retry_queue = << >>
    /\ successfully_processed = {}
    /\ report_written = FALSE
    /\ report = {}
    /\ failedPrimary = {}
    /\ failedRetry = {}
    /\ okRows = {}
    /\ writeFailed = {}
    /\ SlugIdle
    /\ HtmlIdle
    /\ FetchIdle

\* One iteration of `for start_idx in range(0, total_rows, batch_size)`.
\* F is the set of kept rows on which a transform raises in this call; w tells
\* whether to_csv succeeds.  A failed to_csv leaves the file as it was.
PrimaryBatch ==
    /\ pc = "primary"
    /\ start_idx < total_rows
    /\ \E F \in SUBSET Kept(BatchIndices(start_idx)), w \in BOOLEAN :
        LET batch == BatchIndices(start_idx) IN
        /\ okRows' = okRows \cup (Kept(batch) \ F)
        /\ failedPrimary' = failedPrimary \cup F
        /\ IF BatchRaises(F)
           THEN \* except Exception: ... continue
                /\ w = TRUE
                /\ UNCHANGED <<processed_indices, first_batch, output_exists,
                               output, writeFailed>>
           ELSE \* processed_indices.update(batch_indices) comes before to_csv
                /\ processed_indices' = processed_indices \cup batch
                /\ IF w
                   THEN /\ output' = output \o Appended(batch)
                        /\ output_exists' = TRUE
                        /\ first_batch' = FALSE
                        /\ UNCHANGED writeFailed
                   ELSE /\ writeFailed' = writeFailed \cup batch
                        /\ UNCHANGED <<first_batch, output_exists, output>>
    /\ start_idx' = start_idx + batch_size
    /\ UNCHANGED <<total_rows, batch_size, draft, pc, skipped, retry_queue,
                   successfully_processed, report_written, report, failedRetry>>
    /\ UNCHANGED otherVars

\* The loop is over: process_csv_in_batches returns list(skipped_indices) and
\* main() tests `if skipped:`.
PrimaryEnd ==
    /\ pc = "primary"
    /\ start_idx >= total_rows
    /\ skipped' = SkippedIndices
    /\ pc' = IF SkippedIndices # {} THEN "retry_start" ELSE "done"
    /\ UNCHANGED <<total_rows, batch_size, draft, start_idx, processed_indices,
                   first_batch, output_exists, output, retry_queue,
                   successfully_processed, report_written, report,
                   failedPrimary, failedRetry, okRows, writeFailed>>
    /\ UNCHANGED otherVars

\* ------------------------------------------------- process_skipped_rows
\* Entry of process_skipped_rows: pd.read_csv(output_csv_path) raises
\* FileNotFoundError when no primary batch wrote the file; nothing catches it,
\* so main() ends there.
RetryStart ==
    /\ pc = "retry_start"
    /\ IF output_exists
       THEN /\ retry_queue' = SortedSeq(skipped)
            /\ successfully_processed' = {}
            /\ pc' = "retry"
       ELSE /\ pc' = "crashed"
            /\ UNCHANGED <<retry_queue, successfully_processed>>
    /\ UNCHANGED <<total_rows, batch_size, draft, start_idx, processed_indices,
                   first_batch, output_exists, output, skipped,
                   report_written, report,
                   failedPrimary, failedRetry, okRows, writeFailed>>
    /\ UNCHANGED otherVars

\* (mutant of Recorded: the list is created anew in every iteration)
Recorded_reset(idx) == {idx}

\* The index is recorded after a successful append: successfully_processed.append(idx)
Recorded(idx) == successfully_processed \cup {idx}

\* One iteration of `for idx in sorted(skipped_indices)`: process_batch on the
\* single row, append, record.
RetryRow ==
    /\ pc = "retry"
    /\ retry_queue # << >>
    /\ LET idx == Head(retry_queue) IN
       \E F \in SUBSET Kept({idx}), w \in BOOLEAN :
        /\ okRows' = okRows \cup (Kept({idx}) \ F)
        /\ failedRetry' = failedRetry \cup F
        /\ IF BatchRaises(F)
           THEN /\ w = TRUE
                /\ UNCHANGED <<output, successfully_processed, writeFailed>>
           ELSE IF w
                THEN /\ output' = output \o Appended({idx})
                     /\ successfully_processed' = Recorded(idx)
                     /\ UNCHANGED writeFailed
                ELSE /\ writeFailed' = writeFailed \cup {idx}
                     /\ UNCHANGED <<output, successfully_processed>>
    /\ retry_queue' = Tail(retry_queue)
    /\ UNCHANGED <<total_rows, batch_size, draft, pc, start_idx, processed_indices,
                   first_batch, output_exists, skipped, report_written, report,
                   failedPrimary>>
    /\ UNCHANGED otherVars

\* (mutant of StillSkipped: the rows the retry pass completed are not subtracted)
StillSkipped_all == skipped

\* still_skipped = set(skipped_indices) - set(successfully_processed)
StillSkipped == skipped \ successfully_processed

\* The retry loop is over: process_skipped_rows returns list(still_skipped) and
\* main() writes skipped_rows.txt when it is not empty.
RetryEnd ==
    /\ pc = "retry"
    /\ retry_queue = << >>
    /\ IF StillSkipped # {}
       THEN /\ report_written' = TRUE
            /\ report' = StillSkipped
       ELSE UNCHANGED <<report_written, report>>
    /\ pc' = "done"
    /\ UNCHANGED <<total_rows, batch_size, draft, start_idx, processed_indices,
                   first_batch, output_exists, output, skipped, retry_queue,
                   successfully_processed,
                   failedPrimary, failedRetry, okRows, writeFailed>>
    /\ UNCHANGED otherVars

Next == PrimaryBatch \/ PrimaryEnd \/ RetryStart \/ RetryRow \/ RetryEnd

Spec == Init /\ [][Next]_vars

\* ------------------------------------------------ properties of the run
\* main() has returned, or an uncaught exception has ended it
RunEnded == pc \in {"done", "crashed"}

\* no process_batch call and no to_csv call raised
NoFailure == failedPrimary = {} /\ failedRetry = {} /\ writeFailed = {}

\* the index is in one of the two records of completion
Completed(i) == i \in processed_indices \cup successfully_processed

\* the indices of the primary batch that holds row i
BatchOf(i) == BatchIndices((i \div batch_size) * batch_size)

NoDup(s) == \A a, b \in 1..Len(s) : a # b => s[a] # s[b]

Ascending(s) == \A a, b \in 1..Len(s) : a < b => s[a] < s[b]

\* C1: when every row succeeds in process_batch and every write succeeds, the
\* run ends (for every total_rows >= 0 and batch_size >= 1) with the processed
\* index set equal to {0..N-1}, an empty skipped list and no failure report.
C1_AllSucceed ==
    (pc # "primary" /\ NoFailure) =>
        /\ pc = "done"
        /\ processed_indices = 0 .. (total_rows - 1)
        /\ skipped = {}
        /\ ~report_written

\* a clean run over three rows in batches of two (a short final batch)
C1_Witness ==
    /\ pc = "done" /\ NoFailure
    /\ total_rows = 3 /\ batch_size = 2
    /\ processed_indices = {0, 1, 2}

\* row k failed on its every attempt, no other row ever failed, no write failed
PermanentOnly(k) ==
    /\ k \in failedPrimary
    /\ k \notin okRows
    /\ failedPrimary \cup failedRetry \subseteq {k}
    /\ writeFailed = {}

\* C2: if row k fails on every attempt and every other row succeeds on every
\* attempt, main() returns (primary pass, then retry), the reported permanently
\* failed set is exactly {k}, and every other index is completed and (unless it
\* is a draft) written to the output.
C2_PermanentFailureReported ==
    \A k \in AllIndices :
        (RunEnded /\ PermanentOnly(k)) =>
            /\ pc = "done"
            /\ report_written /\ report = {k}
            /\ \A i \in AllIndices \ {k} :
                  Completed(i) /\ (i \notin draft => i \in Range(output))

\* C3 (as claimed): in the primary pass, when one row of a batch fails and the
\* other rows succeed, the other rows are completed in that same pass (added to
\* the processed set and written) and only the failing row stays outstanding.
C3_PerRowIsolation ==
    [][ (/\ pc = "primary" /\ start_idx < total_rows
         /\ Cardinality(failedPrimary' \ failedPrimary) = 1)
        => \A j \in BatchIndices(start_idx) \ failedPrimary' :
              /\ j \in processed_indices'
              /\ j \notin draft => j \in Range(output') ]_vars

\* C3 (amended): in the primary pass failure isolation is per batch: when a row
\* of a batch fails, no row of that batch is completed in that pass (no index
\* is added to the processed set, no row is written), and every index of the
\* batch is returned as outstanding for the retry pass.
C3_PerBatchIsolation ==
    [][ /\ (pc = "primary" /\ start_idx < total_rows /\ failedPrimary' # failedPrimary)
            => /\ processed_indices' = processed_indices
               /\ output' = output
        /\ (pc = "primary" /\ pc' # "primary")
            => \A i \in failedPrimary : BatchOf(i) \subseteq skipped' ]_vars

\* a row that did not fail is outstanding and unwritten after the primary pass
\* because another row of its batch failed
C3_Witness ==
    /\ pc = "retry_start"
    /\ \E i \in failedPrimary : \E j \in BatchOf(i) \ failedPrimary :
          /\ j \notin draft /\ j \in okRows
          /\ j \in skipped /\ j \notin Range(output)

\* C4: when the run ends, every index of 0..N-1 that never completed is in the
\* failure report written to skipped_rows.txt, for every pattern of failures.
C4_NoSilentDiscard ==
    RunEnded =>
        \A i \in AllIndices : ~Completed(i) => (report_written /\ i \in report)

\* C5: no original_index has more than one row in the output, and no index is
\* both written to the output and listed in the failure report.
C5_NoDuplicateNoOverlap ==
    /\ NoDup(output)
    /\ report_written => (report \cap Range(output) = {})

\* a finished run with a failure report, a row written by the primary pass and
\* a row written by the retry pass
C5_Witness ==
    /\ pc = "done" /\ report_written
    /\ \E i \in processed_indices : i \in Range(output)
    /\ \E j \in successfully_processed : j \in Range(output)

\* C6: at the end of a run the rows of the output are in ascending
\* original_index order.
C6_OutputInInputOrder == pc = "done" => Ascending(output)

\* C7 (as claimed): a draft index is never in the processed index set, never
\* in the outstanding set handed to the retry pass, never in the failure report.
C7_DraftExcluded ==
    \A d \in draft :
        /\ d \notin processed_indices
        /\ d \notin skipped
        /\ d \notin Range(retry_queue)
        /\ d \notin report

\* C7 (amended): a draft row is never written to the output, but it is counted
\* with its batch: after the primary pass its index is in the processed index
\* set exactly when process_batch succeeded on its batch, and then it is never
\* outstanding nor reported; otherwise it is outstanding and handed to the
\* retry pass, and it is reported only if its (empty) append failed there.
C7_DraftAccounting ==
    \A d \in draft :
        /\ d \notin Range(output)
        /\ pc # "primary" =>
              /\ d \in processed_indices <=> (BatchOf(d) \cap failedPrimary = {})
              /\ d \notin processed_indices => d \in skipped
        /\ d \in processed_indices =>
              /\ d \notin skipped
              /\ d \notin Range(retry_queue)
              /\ d \notin report
        /\ d \in report => d \in writeFailed

\* a finished run with a draft row counted as processed by the primary pass and
\* another draft row that went through the retry pass
C7_Witness ==
    /\ pc = "done"
    /\ \E d \in draft : d \in processed_indices
    /\ \E d \in draft : d \in successfully_processed


CompletedSet == processed_indices \cup successfully_processed

\* C12: the set of completed indices (processed_indices together with
\* successfully_processed) only grows: no step removes an index from it, and an
\* index that is in it is never submitted to process_batch again; the primary
\* pass submits only indices not yet completed and the retry pass only indices
\* that were outstanding after the primary pass.
C12_CompletedOnlyGrows ==
    [][ /\ CompletedSet \subseteq CompletedSet'
        /\ (pc = "primary" /\ start_idx < total_rows)
              => BatchIndices(start_idx) \cap CompletedSet = {}
        /\ (pc = "retry" /\ retry_queue # << >>)
              => Head(retry_queue) \in skipped \ CompletedSet ]_vars

\* the retry pass is about to submit an outstanding index while both records
\* of completion hold indices
C12_Witness ==
    /\ pc = "retry" /\ retry_queue # << >>
    /\ processed_indices # {}
    /\ successfully_processed # {}

\* C13: an index is recorded as processed only once its outcome is durable:
\* every non-draft index of processed_indices has its row in the output, and
\* the indices of a batch whose write failed are not in processed_indices and
\* are outstanding for the retry pass.
C13_ProcessedIsDurable ==
    /\ (processed_indices \ draft) \subseteq Range(output)
    /\ writeFailed \cap processed_indices = {}
    /\ pc \in {"retry_start", "retry", "done"} => writeFailed \subseteq skipped

\* C14: for every row and each of the three fetch routines, the storage folder
\* used as a path component under the base folder is non-empty (it is the
\* fallback untitled-row-{idx} whenever the slug of the title would be empty),
\* so no routine stores a row's images directly in the base folder, where rows
\* with different indices would share them.
C14_FolderNonEmpty ==
    \A d \in dirs : d.folder # << >>

=============================================================================
